---- MODULE Spec2Model ----
(***************************************************************************)
(* Contest-Pulse Discord bot: the reminder scheduler                       *)
(* (services/reminderService.js, the 'ready' handler and the               *)
(* '!setup-reminders' command of index.js) and the contest aggregator      *)
(* (services/contestService.js).                                           *)
(*                                                                         *)
(* Time is counted in seconds: every millisecond value of the code is      *)
(* divided by 1000, so 24 * 60 * 60 * 1000 ms is written 24 * 60 * 60.     *)
(***************************************************************************)
EXTENDS Integers, Sequences, FiniteSets, TLC

(***************************************************************************)
(* Bounds of the model.                                                    *)
(***************************************************************************)
\* refresh calls (scheduleContestReminders, refreshContests) started in a run
MaxCalls == 2
\* length of a contest list handed to the scheduler
MaxList == 2
\* deliveries that fail in a run
MaxFailures == 1
\* fetchContests calls started in a run of the aggregator
MaxFetches == 2
\* records in one platform fetcher's answer
MaxSource == 2
\* items in the body of one answer of an AtCoder source
MaxPayload == 1
\* contests in the list the today check fetches
MaxToday == 3
\* items in an answer handed to an adapter's formatting code
MaxItems == 2
\* characters in the name of a contest whose identity is computed
MaxName == 2

(***************************************************************************)
(* Program constants.                                                      *)
(***************************************************************************)
Hour == 60 * 60
oneDayBefore == 24 * 60 * 60
sixHoursBefore == 6 * 60 * 60
thirtyMinsBefore == 30 * 60
DefaultDaysAhead == 7
AtCoderMinDaysAhead == 45
DayMs == 24 * 60 * 60

\* attemptWithResourceId: maxAttempts
maxAttempts == 3

ResourceIdsSwapped == <<93, 2>>

\* the resource IDs tried, in order
ResourceIds == <<2, 93>>

\* the timeouts, in seconds, of the requests the cascade sends
TitleTimeout == 10
ScrapeTimeout == 15
ProblemsTimeout == 15

AttemptTimeoutFlat(attempts) == 10

\* attemptWithResourceId: const timeout = 10000 * attempts
AttemptTimeout(attempts) == 10 * attempts

TimeTexts == {"1 day", "6 hours", "30 minutes"}

OffsetOfSwapped(timeText) ==
  CASE timeText = "1 day" -> sixHoursBefore
    [] timeText = "6 hours" -> oneDayBefore
    [] timeText = "30 minutes" -> thirtyMinsBefore

\* the lead time scheduleReminders subtracts for each label
OffsetOf(timeText) ==
  CASE timeText = "1 day" -> oneDayBefore
    [] timeText = "6 hours" -> sixHoursBefore
    [] timeText = "30 minutes" -> thirtyMinsBefore

\* the member of sentReminders the job callback consults for a label
\* ("none": the label is not tracked and the reminder is always sent)
DedupKey(timeText) ==
  CASE timeText = "1 day" -> "day"
    [] timeText = "6 hours" -> "hours"
    [] timeText = "30 minutes" -> "minutes"
    [] OTHER -> "none"

(***************************************************************************)
(* Contest records and their identity.                                     *)
(* A name is a sequence of characters; the identity is the template        *)
(* string `${platform}-${name}-${startTimeMs}` as a character sequence.    *)
(***************************************************************************)
DigitChars == <<"0", "1", "2", "3", "4", "5", "6", "7", "8", "9">>

RECURSIVE NumberToString(_)
NumberToString(n) ==
  IF n < 10 THEN <<DigitChars[n + 1]>>
  ELSE NumberToString(n \div 10) \o <<DigitChars[(n % 10) + 1]>>

\* the characters of a platform name
PlatformChars(platform) ==
  IF platform = "AtCoder" THEN <<"A", "t", "C", "o", "d", "e", "r">>
  ELSE <<"C", "o", "d", "e", "f", "o", "r", "c", "e", "s">>

ContestIdJoined(contest) ==
  PlatformChars(contest.platform) \o contest.name
    \o NumberToString(contest.startTimeMs)

\* scheduleReminders: `${contest.platform}-${contest.name}-${contestStartTime}`
ContestId(contest) ==
  PlatformChars(contest.platform) \o <<"-">> \o contest.name \o <<"-">>
    \o NumberToString(contest.startTimeMs)

\* the contests the sources report to the scheduler runs of the model
RoundStart == 26 * Hour
BeginnerStart == 2 * Hour
Round == [platform |-> "Codeforces", name |-> <<"R", "1">>,
          startTimeMs |-> RoundStart]
Beginner == [platform |-> "AtCoder", name |-> <<"A", "B", "C">>,
             startTimeMs |-> BeginnerStart]
Universe == {Round, Beginner}

\* the instants the clock takes: 0 and every fire time (one of them is the
\* start of Beginner)
Instants ==
  {0} \cup {t \in {c.startTimeMs - OffsetOf(o) : c \in Universe, o \in TimeTexts} :
              t > 0}

SeqsUpTo(S, n) == UNION {[1..k -> S] : k \in 0..n}

(***************************************************************************)
(* JavaScript values the aggregator computes with: a number is a value or  *)
(* NaN, an environment variable is absent or a string of characters.       *)
(***************************************************************************)
Num(n) == [nan |-> FALSE, val |-> n]
NaN == [nan |-> TRUE, val |-> 0]

Undefined == [defined |-> FALSE, text |-> <<>>]
Str(chars) == [defined |-> TRUE, text |-> chars]

IsDigit(ch) == \E d \in 1..10 : DigitChars[d] = ch
DigitValue(ch) == (CHOOSE d \in 1..10 : DigitChars[d] = ch) - 1

RECURSIVE ParseDigits(_, _)
ParseDigits(chars, acc) ==
  IF chars = <<>> \/ ~IsDigit(Head(chars)) THEN acc
  ELSE ParseDigits(Tail(chars), acc * 10 + DigitValue(Head(chars)))

\* parseInt(text, 10): the leading digits, NaN when there is none
parseInt(chars) ==
  IF chars = <<>> \/ ~IsDigit(Head(chars)) THEN NaN
  ELSE Num(ParseDigits(chars, 0))

\* Math.max(a, b)
MathMax(a, b) ==
  IF a.nan \/ b.nan THEN NaN ELSE IF a.val >= b.val THEN a ELSE b

\* number.toString()
numberToString(x) == IF x.nan THEN <<"N", "a", "N">> ELSE NumberToString(x.val)

\* value || fallback for an environment variable
OrElse(value, fallback) ==
  IF value.defined /\ value.text # <<>> THEN value.text ELSE fallback

\* what process.env.X = value stores: the value coerced to a string
EnvAssign(value) ==
  IF value.defined THEN value
  ELSE Str(<<"u", "n", "d", "e", "f", "i", "n", "e", "d">>)

(***************************************************************************)
(* fetchContests as a function of what the two platform fetchers           *)
(* returned: concatenate (Codeforces first), keep the records in the       *)
(* window, sort by start time with the engine's stable sort.               *)
(***************************************************************************)
\* a comparison with NaN is false
InTimeRange(contest, t, daysAhead) ==
  /\ ~daysAhead.nan
  /\ contest.startTimeMs >= t
  /\ contest.startTimeMs <= t + daysAhead.val * DayMs

RECURSIVE FilterSeq(_, _, _)
FilterSeq(s, t, daysAhead) ==
  IF s = <<>> THEN <<>>
  ELSE IF InTimeRange(Head(s), t, daysAhead)
       THEN <<Head(s)>> \o FilterSeq(Tail(s), t, daysAhead)
       ELSE FilterSeq(Tail(s), t, daysAhead)

\* insert x before the first element that does not compare smaller
RECURSIVE InsertBeforeEqual(_, _)
InsertBeforeEqual(x, s) ==
  IF s = <<>> THEN <<x>>
  ELSE IF Head(s).startTimeMs - x.startTimeMs >= 0
       THEN <<x>> \o s
       ELSE <<Head(s)>> \o InsertBeforeEqual(x, Tail(s))

\* insert x after every element that does not compare greater: stable
RECURSIVE InsertStable(_, _)
InsertStable(x, s) ==
  IF s = <<>> THEN <<x>>
  ELSE IF Head(s).startTimeMs - x.startTimeMs > 0
       THEN <<x>> \o s
       ELSE <<Head(s)>> \o InsertStable(x, Tail(s))

RECURSIVE SortByStart(_)
SortByStart(s) ==
  IF s = <<>> THEN <<>>
  ELSE InsertStable(s[Len(s)], SortByStart(SubSeq(s, 1, Len(s) - 1)))

CombineAsCompleted(codeforcesContests, atcoderContests) ==
  atcoderContests \o codeforcesContests

\* [...codeforcesContests, ...atcoderContests]
Combine(codeforcesContests, atcoderContests) ==
  codeforcesContests \o atcoderContests

Aggregate(codeforcesContests, atcoderContests, t, daysAhead) ==
  SortByStart(FilterSeq(Combine(codeforcesContests, atcoderContests), t,
                        daysAhead))

\* the lists fetchContests can hand to the scheduler at instant t
FetchResults(t) ==
  {l \in {Aggregate(cf, ac, t, Num(DefaultDaysAhead)) :
            cf \in SeqsUpTo({c \in Universe : c.platform = "Codeforces"}, 1),
            ac \in SeqsUpTo({c \in Universe : c.platform = "AtCoder"}, MaxList)} :
     Len(l) <= MaxList}

VARIABLES
  now,            \* Date.now()
  scheduledJobs,  \* schedule.scheduledJobs: the jobs node-schedule holds
  sentReminders,  \* the dedup sets day / hours / minutes
  running,        \* job callbacks suspended on an await
  calls,          \* the refresh calls awaiting their fetch, oldest first,
                  \* each with its rank n among the calls started
  nCalls,         \* number of refresh calls started so far
  ready,          \* position of the client.once('ready') handler
  epoch,          \* number of clearAllReminders calls so far
  refreshLog,     \* history: the refresh calls whose fetch has returned
  fired,          \* history: the jobs whose callback ran
  sendLog,        \* history: the channel.send calls of reminders, in order
  failLog,        \* history: the jobs whose delivery failed
  env,            \* process.env.CONTEST_DAYS_AHEAD
  configured,     \* the value of CONTEST_DAYS_AHEAD at process start
  fetches,        \* the fetchContests calls suspended on an await
  nFetches,       \* number of fetchContests calls started so far
  returned,       \* history: what the fetchContests call that returned last
                  \* resolved to
  credentials,    \* state of CLIST_USERNAME / CLIST_API_KEY
  cascade,        \* position of the running fetchAtCoderContests call
  requests,       \* history: the requests that call has sent, with outcomes
  atcoderResult,  \* history: what fetchAtCoderContests resolved to
  today,          \* sendTodayContestReminders: position, channel argument,
                  \* timezone, list fetched
  todaySent,      \* history: the contests it sent a notification for
  health,         \* runHealthChecks: position and the probes' results
  formatted       \* history: the last input a function of the code was
                  \* applied to on its own, and what it made of it

schedVars == <<scheduledJobs, sentReminders, running, calls, nCalls, ready,
               epoch, refreshLog, fired, sendLog, failLog>>

fetchVars == <<env, configured, fetches, nFetches, returned>>

cascadeVars == <<credentials, cascade, requests, atcoderResult>>

todayVars == <<today, todaySent>>

nonSchedVars == <<fetchVars, cascadeVars, todayVars, health, formatted>>

nonFetchVars == <<schedVars, cascadeVars, todayVars, health, formatted>>

nonCascadeVars == <<schedVars, fetchVars, todayVars, health, formatted>>

nonTodayVars == <<schedVars, fetchVars, cascadeVars, health, formatted>>

nonHealthVars == <<schedVars, fetchVars, cascadeVars, todayVars, formatted>>

nonFormatVars == <<schedVars, fetchVars, cascadeVars, todayVars, health>>

vars == <<now, schedVars, fetchVars, cascadeVars, todayVars, health, formatted>>

NoContest == [platform |-> "none", name |-> <<>>, startTimeMs |-> 0]

\* the recurring job registered by the 'ready' handler
CronJob == [kind |-> "cron", contest |-> NoContest, contestId |-> <<>>,
            timeText |-> "cron", fireAt |-> 0, epoch |-> 0, idx |-> 0]

\* the one-shot job scheduleReminder creates
ReminderJob(contest, timeText, e, i) ==
  [kind |-> "reminder", contest |-> contest, contestId |-> ContestId(contest),
   timeText |-> timeText, fireAt |-> contest.startTimeMs - OffsetOf(timeText),
   epoch |-> e, idx |-> i]

EmptySent == [day |-> {}, hours |-> {}, minutes |-> {}]

NoResult == [done |-> FALSE, list |-> <<>>, input |-> <<>>, at |-> 0,
             daysAhead |-> NaN, codeforcesContests |-> <<>>,
             atcoderContests |-> <<>>]

\* clearAllReminders: the jobs left in schedule.scheduledJobs after the
\* loop has cancelled every entry
JobsAfterClearNone(jobs) == jobs

JobsAfterClear(jobs) == {}

\* scheduleReminders: the test that decides whether an offset is armed
ShouldArmAlways(reminderTime, t) == TRUE

ShouldArmFromNow(reminderTime, t) == reminderTime >= t

ShouldArm(reminderTime, t) == reminderTime > t

\* scheduleReminders: the jobs created for list contests at instant t
ArmedJobs(contests, t, e) ==
  {j \in {ReminderJob(contests[i], o, e, i) :
            i \in 1..Len(contests), o \in TimeTexts} :
     ShouldArm(j.fireAt, t)}

NoCascade == [pc |-> "idle", resource |-> 0, attempts |-> 0]

NoAnswer == [done |-> FALSE, list |-> <<>>, payload |-> <<>>]

\* the scheduler before the 'ready' event
SchedulerIdle ==
  /\ scheduledJobs = {}
  /\ sentReminders = EmptySent
  /\ running = {}
  /\ calls = <<>>
  /\ nCalls = 0
  /\ ready = "init"
  /\ epoch = 0
  /\ refreshLog = <<>>
  /\ fired = {}
  /\ sendLog = <<>>
  /\ failLog = {}

\* no fetchContests call made yet
FetchIdle ==
  /\ fetches = <<>>
  /\ nFetches = 0
  /\ returned = NoResult

\* no fetchAtCoderContests call made yet
CascadeIdle ==
  /\ cascade = NoCascade
  /\ requests = <<>>
  /\ atcoderResult = NoAnswer

NoToday == [pc |-> "idle", channel |-> "undefined", offset |-> 0,
            contests |-> <<>>, result |-> FALSE]

\* no sendTodayContestReminders call made yet
TodayIdle ==
  /\ today = NoToday
  /\ todaySent = <<>>

NoHealth == [pc |-> "idle", discordCheck |-> "false", codeforcesCheck |-> "false",
             atcoderCheck |-> "false", clistCheck |-> "false",
             status |-> "none", answers |-> <<>>]

\* no runHealthChecks call made yet
HealthIdle == health = NoHealth

NoFormat == [adapter |-> "none", input |-> <<>>, output |-> <<>>]

\* no answer turned into records yet
FormatIdle == formatted = NoFormat

Init ==
  /\ now = 0
  /\ SchedulerIdle
  /\ env = Undefined
  /\ configured = Undefined
  /\ FetchIdle
  /\ credentials = "set"
  /\ CascadeIdle
  /\ TodayIdle
  /\ HealthIdle
  /\ FormatIdle

ReminderJobs(jobs) == {j \in jobs : j.kind = "reminder"}

\* clearAllReminders as a step of its own (the first statement of
\* refreshContests)
clearAllReminders ==
  /\ scheduledJobs' = JobsAfterClear(scheduledJobs)
  /\ sentReminders' = EmptySent
  /\ epoch' = epoch + 1

\* scheduleReminders(client, contests): clear, then arm the future offsets
scheduleReminders(contests, extraJobs) ==
  /\ scheduledJobs' = JobsAfterClear(scheduledJobs)
                        \cup ArmedJobs(contests, now, epoch + 1) \cup extraJobs
  /\ sentReminders' = EmptySent
  /\ epoch' = epoch + 1

StartCall(fn, src) ==
  /\ nCalls < MaxCalls
  /\ nCalls' = nCalls + 1
  /\ calls' = Append(calls, [fn |-> fn, src |-> src, n |-> nCalls + 1])

\* client.once('ready'): the handler awaits scheduleContestReminders
Ready ==
  /\ ready = "init"
  /\ StartCall("scheduleContestReminders", "ready")
  /\ ready' = "awaitReminders"
  /\ UNCHANGED <<now, scheduledJobs, sentReminders, running, epoch, refreshLog,
                 fired, sendLog, failLog, nonSchedVars>>

\* an invocation of the recurring job: it runs while the job is scheduled
CronTick ==
  /\ CronJob \in scheduledJobs
  /\ StartCall("scheduleContestReminders", "trigger")
  /\ UNCHANGED <<now, scheduledJobs, sentReminders, running, ready, epoch,
                 refreshLog, fired, sendLog, failLog, nonSchedVars>>

\* messageCreate with content '!setup-reminders'
SetupReminders ==
  /\ ready # "init"
  /\ StartCall("scheduleContestReminders", "trigger")
  /\ UNCHANGED <<now, scheduledJobs, sentReminders, running, ready, epoch,
                 refreshLog, fired, sendLog, failLog, nonSchedVars>>

\* refreshContests up to its await: clearAllReminders, then the fetch
refreshContests ==
  /\ ready # "init"
  /\ StartCall("refreshContests", "trigger")
  /\ clearAllReminders
  /\ UNCHANGED <<now, running, ready, refreshLog, fired, sendLog, failLog,
                 nonSchedVars>>

\* the fetch of call i resolves with list contests and the caller runs on to
\* its next await or its end: scheduleContestReminders arms only a non-empty
\* list, refreshContests arms any list; the 'ready' handler then registers
\* the recurring job
FetchReturns(i, contests) ==
  LET call == calls[i]
      arms == call.fn = "refreshContests" \/ Len(contests) > 0
      extraJobs == IF call.src = "ready" THEN {CronJob} ELSE {}
  IN  /\ calls' = SubSeq(calls, 1, i - 1) \o SubSeq(calls, i + 1, Len(calls))
      /\ IF arms
         THEN scheduleReminders(contests, extraJobs)
         ELSE /\ scheduledJobs' = scheduledJobs \cup extraJobs
              /\ UNCHANGED <<sentReminders, epoch>>
      /\ ready' = IF call.src = "ready" THEN "done" ELSE ready
      /\ refreshLog' = Append(refreshLog,
                              [fn |-> call.fn, call |-> call.n,
                               list |-> contests, at |-> now,
                               armed |-> arms, epoch |-> epoch'])
      /\ UNCHANGED <<now, nCalls, running, fired, sendLog, failLog, nonSchedVars>>

JobsAfterFailureNone(jobs, job) == {j \in jobs : j.kind # "reminder"}

\* the job callback's catch block logs the error: the jobs in
\* schedule.scheduledJobs stay as they are
JobsAfterFailure(jobs, job) == jobs

\* the dedup sets after a delivery failed: the mark stays
SentAfterFailureUnmarked(sent, job) ==
  IF DedupKey(job.timeText) = "none" THEN sent
  ELSE [sent EXCEPT ![DedupKey(job.timeText)] = @ \ {job.contestId}]

SentAfterFailure(sent, job) == sent

\* the job callback's dedup check: send unless the pair is already marked
ShouldSendAlways(sent, job) == TRUE

ShouldSend(sent, job) ==
  DedupKey(job.timeText) = "none"
    \/ job.contestId \notin sent[DedupKey(job.timeText)]

JobsAfterFireKept(jobs, job) == jobs

\* node-schedule drops a one-shot job from schedule.scheduledJobs when its
\* only invocation runs
JobsAfterFire(jobs, job) == jobs \ {job}

SentAfterCheckUnmarked(sent, job) == sent

\* the job callback's dedup check: a pair not yet marked is marked in the
\* same synchronous step
SentAfterCheck(sent, job) ==
  IF ShouldSend(sent, job) /\ DedupKey(job.timeText) # "none"
  THEN [sent EXCEPT ![DedupKey(job.timeText)] = @ \cup {job.contestId}]
  ELSE sent

\* the timer of job elapses: the callback runs up to its first await
Fire(job) ==
  LET shouldSend == ShouldSend(sentReminders, job)
  IN  /\ job \in ReminderJobs(scheduledJobs)
      /\ job.fireAt <= now
      /\ scheduledJobs' = JobsAfterFire(scheduledJobs, job)
      /\ fired' = fired \cup {[job |-> job, passed |-> shouldSend]}
      /\ sentReminders' = SentAfterCheck(sentReminders, job)
      /\ running' = IF shouldSend
                    THEN running \cup {[job |-> job, pc |-> "fetchChannel"]}
                    ELSE running
      /\ UNCHANGED <<now, calls, nCalls, ready, epoch, refreshLog, sendLog,
                     failLog, nonSchedVars>>

\* client.channels.fetch settles: with a channel the callback calls
\* channel.send; with nothing or an exception it ends
ChannelFetched(r, outcome) ==
  /\ r \in running
  /\ r.pc = "fetchChannel"
  /\ outcome # "channel" => Cardinality(failLog) < MaxFailures
  /\ IF outcome = "channel"
     THEN /\ running' = (running \ {r}) \cup {[job |-> r.job, pc |-> "send"]}
          /\ sendLog' = Append(sendLog, r.job)
          /\ UNCHANGED <<failLog, sentReminders>>
     ELSE /\ running' = running \ {r}
          /\ failLog' = failLog \cup {r.job}
          /\ sentReminders' = SentAfterFailure(sentReminders, r.job)
          /\ UNCHANGED sendLog
  /\ scheduledJobs' = IF outcome = "throws"
                      THEN JobsAfterFailure(scheduledJobs, r.job)
                      ELSE scheduledJobs
  /\ UNCHANGED <<now, calls, nCalls, ready, epoch, refreshLog, fired,
                 nonSchedVars>>

\* channel.send settles: a rejection is caught and logged
SendSettles(r, ok) ==
  /\ r \in running
  /\ r.pc = "send"
  /\ ~ok => Cardinality(failLog) < MaxFailures
  /\ running' = running \ {r}
  /\ IF ok
     THEN UNCHANGED <<failLog, sentReminders>>
     ELSE /\ failLog' = failLog \cup {r.job}
          /\ sentReminders' = SentAfterFailure(sentReminders, r.job)
  /\ scheduledJobs' = IF ok THEN scheduledJobs
                      ELSE JobsAfterFailure(scheduledJobs, r.job)
  /\ UNCHANGED <<now, calls, nCalls, ready, epoch, refreshLog, fired, sendLog,
                 nonSchedVars>>

\* the clock advances to the next instant.  Instants are at least 30 minutes
\* apart while a due timer and the awaits of a callback take seconds, so the
\* due jobs have fired and their callbacks have ended before the next
\* instant; the order of the steps taken at one instant is free.
Tick ==
  /\ \E t \in Instants : t > now
  /\ \A job \in ReminderJobs(scheduledJobs) : job.fireAt > now
  /\ running = {}
  /\ now' = CHOOSE t \in Instants : t > now /\ \A u \in Instants : u > now => t <= u
  /\ UNCHANGED <<schedVars, nonSchedVars>>

Next ==
  \/ Ready
  \/ CronTick
  \/ SetupReminders
  \/ refreshContests
  \/ \E i \in 1..Len(calls) : \E contests \in FetchResults(now) :
       FetchReturns(i, contests)
  \/ \E job \in scheduledJobs : Fire(job)
  \/ \E r \in running : \E outcome \in {"channel", "null", "throws"} :
       ChannelFetched(r, outcome)
  \/ \E r \in running : \E ok \in BOOLEAN : SendSettles(r, ok)
  \/ Tick

Spec == Init /\ [][Next]_vars

(***************************************************************************)
(* The scheduler variant whose scheduleReminders also arms a 'soon' and an *)
(* 'imminent' reminder; its scheduleContestReminders, refreshContests,     *)
(* clearAllReminders and job callback are those of the scheduler above.    *)
(***************************************************************************)
oneDayMs == 24 * 60 * 60
sixHoursMs == 6 * 60 * 60
thirtyMinutesMs == 30 * 60

VariantTimeTexts == TimeTexts \cup {"soon", "imminent"}

\* a contest that starts 20 minutes after the process
SprintStart == 20 * 60
Sprint == [platform |-> "Codeforces", name |-> <<"S">>,
           startTimeMs |-> SprintStart]

VariantUniverse == {Beginner, Sprint}

\* the lists fetchContests can hand to the variant at instant t
VariantFetchResults(t) ==
  {l \in SeqsUpTo({c \in VariantUniverse : c.startTimeMs >= t}, MaxList) :
     l = SortByStart(l)}

\* the test that decides whether a label is armed for a contest at t
VariantShouldArm(contest, timeText, t) ==
  LET timeUntilContest == contest.startTimeMs - t
  IN  /\ timeUntilContest > 0
      /\ CASE timeText = "1 day" -> timeUntilContest > oneDayMs
           [] timeText = "6 hours" -> timeUntilContest > sixHoursMs
           [] timeText = "30 minutes" -> timeUntilContest > thirtyMinutesMs
           [] timeText = "soon" -> /\ timeUntilContest > thirtyMinutesMs
                                   /\ timeUntilContest < sixHoursMs
           [] timeText = "imminent" -> timeUntilContest <= thirtyMinutesMs

\* the fire time of a label: 'soon' fires midway between t and the start,
\* 'imminent' one second after t
VariantReminderTime(contest, timeText, t) ==
  CASE timeText = "1 day" -> contest.startTimeMs - oneDayMs
    [] timeText = "6 hours" -> contest.startTimeMs - sixHoursMs
    [] timeText = "30 minutes" -> contest.startTimeMs - thirtyMinutesMs
    [] timeText = "soon" -> t + ((contest.startTimeMs - t) \div 2)
    [] timeText = "imminent" -> t + 1

VariantJob(contest, timeText, t, e, i) ==
  [kind |-> "reminder", contest |-> contest, contestId |-> ContestId(contest),
   timeText |-> timeText, fireAt |-> VariantReminderTime(contest, timeText, t),
   epoch |-> e, idx |-> i]

\* the jobs the variant creates for list contests at instant t
VariantArmedJobs(contests, t, e) ==
  {VariantJob(contests[p[1]], p[2], t, e, p[1]) :
     p \in {q \in (1..Len(contests)) \X VariantTimeTexts :
              VariantShouldArm(contests[q[1]], q[2], t)}}

\* scheduleReminders(client, contests) of the variant
VariantScheduleReminders(contests, extraJobs) ==
  /\ scheduledJobs' = JobsAfterClear(scheduledJobs)
                        \cup VariantArmedJobs(contests, now, epoch + 1)
                        \cup extraJobs
  /\ sentReminders' = EmptySent
  /\ epoch' = epoch + 1

\* the fetch of call i resolves and the caller runs on with the variant's
\* scheduleReminders
VariantFetchReturns(i, contests) ==
  LET call == calls[i]
      arms == call.fn = "refreshContests" \/ Len(contests) > 0
      extraJobs == IF call.src = "ready" THEN {CronJob} ELSE {}
  IN  /\ calls' = SubSeq(calls, 1, i - 1) \o SubSeq(calls, i + 1, Len(calls))
      /\ IF arms
         THEN VariantScheduleReminders(contests, extraJobs)
         ELSE /\ scheduledJobs' = scheduledJobs \cup extraJobs
              /\ UNCHANGED <<sentReminders, epoch>>
      /\ ready' = IF call.src = "ready" THEN "done" ELSE ready
      /\ refreshLog' = Append(refreshLog,
                              [fn |-> call.fn, call |-> call.n,
                               list |-> contests, at |-> now,
                               armed |-> arms, epoch |-> epoch'])
      /\ UNCHANGED <<now, nCalls, running, fired, sendLog, failLog, nonSchedVars>>

\* the clock advances to the next fire time once the due jobs have fired
\* and their callbacks have ended
VariantTick ==
  /\ ReminderJobs(scheduledJobs) # {}
  /\ \A job \in ReminderJobs(scheduledJobs) : job.fireAt > now
  /\ running = {}
  /\ now' = CHOOSE t \in {job.fireAt : job \in ReminderJobs(scheduledJobs)} :
              \A job \in ReminderJobs(scheduledJobs) : t <= job.fireAt
  /\ UNCHANGED <<schedVars, nonSchedVars>>

NextVariant ==
  \/ Ready
  \/ CronTick
  \/ SetupReminders
  \/ refreshContests
  \/ \E i \in 1..Len(calls) : \E contests \in VariantFetchResults(now) :
       VariantFetchReturns(i, contests)
  \/ \E job \in scheduledJobs : Fire(job)
  \/ \E r \in running : \E outcome \in {"channel", "null", "throws"} :
       ChannelFetched(r, outcome)
  \/ \E r \in running : \E ok \in BOOLEAN : SendSettles(r, ok)
  \/ VariantTick

SpecVariant == Init /\ [][NextVariant]_vars

(***************************************************************************)
(* The aggregator on its own: fetchContests calls that may overlap, the    *)
(* two platform fetchers answering with any records.                       *)
(***************************************************************************)
FetchNow == 20 * Hour

InOneDay == FetchNow + DayMs
InThirtyDays == FetchNow + 30 * DayMs
InSixtyDays == FetchNow + 60 * DayMs
AnHourAgo == FetchNow - Hour

CfA == [platform |-> "Codeforces", name |-> <<"A">>, startTimeMs |-> InOneDay]
CfB == [platform |-> "Codeforces", name |-> <<"B">>, startTimeMs |-> InOneDay]
CfPast == [platform |-> "Codeforces", name |-> <<"P">>, startTimeMs |-> AnHourAgo]
AcA == [platform |-> "AtCoder", name |-> <<"A">>, startTimeMs |-> InOneDay]
AcFar == [platform |-> "AtCoder", name |-> <<"F">>, startTimeMs |-> InThirtyDays]

\* what fetchCodeforcesContests and fetchAtCoderContests can resolve to
CodeforcesAnswers == SeqsUpTo({CfA, CfB, CfPast}, MaxSource)
AtCoderAnswers == SeqsUpTo({AcA, AcFar}, MaxSource)

\* the settings of CONTEST_DAYS_AHEAD the process is started with
Settings == {Undefined, Str(<<"3">>)}

InitFetch ==
  /\ now = FetchNow
  /\ SchedulerIdle
  /\ env \in Settings
  /\ configured = env
  /\ FetchIdle
  /\ credentials = "set"
  /\ CascadeIdle
  /\ TodayIdle
  /\ HealthIdle
  /\ FormatIdle

\* fetchContests up to its first await: read the look-ahead, write the
\* AtCoder look-ahead to the environment, call fetchAtCoderContests
fetchContests ==
  LET daysAhead == parseInt(OrElse(env, NumberToString(DefaultDaysAhead)))
      atcoderDaysAhead == MathMax(daysAhead, Num(AtCoderMinDaysAhead))
  IN  /\ nFetches < MaxFetches
      /\ nFetches' = nFetches + 1
      /\ fetches' = Append(fetches,
                           [pc |-> "atcoder", daysAhead |-> daysAhead,
                            originalDaysAhead |-> env,
                            atcoderContests |-> <<>>])
      /\ env' = EnvAssign(Str(numberToString(atcoderDaysAhead)))
      /\ UNCHANGED <<now, nonFetchVars, configured, returned>>

\* fetchAtCoderContests resolves: restore the setting, call
\* fetchCodeforcesContests
AtCoderResolves(k, answer) ==
  /\ fetches[k].pc = "atcoder"
  /\ env' = EnvAssign(fetches[k].originalDaysAhead)
  /\ fetches' = [fetches EXCEPT ![k].pc = "codeforces",
                                ![k].atcoderContests = answer]
  /\ UNCHANGED <<now, nonFetchVars, configured, nFetches, returned>>

\* fetchCodeforcesContests resolves: combine, filter, sort, return
CodeforcesResolves(k, answer) ==
  /\ fetches[k].pc = "codeforces"
  /\ returned' = [done |-> TRUE,
                  list |-> Aggregate(answer, fetches[k].atcoderContests, now,
                                     fetches[k].daysAhead),
                  input |-> answer \o fetches[k].atcoderContests,
                  at |-> now,
                  daysAhead |-> fetches[k].daysAhead,
                  codeforcesContests |-> answer,
                  atcoderContests |-> fetches[k].atcoderContests]
  /\ fetches' = SubSeq(fetches, 1, k - 1) \o SubSeq(fetches, k + 1, Len(fetches))
  /\ UNCHANGED <<now, nonFetchVars, env, configured, nFetches>>

\* fetchCodeforcesContests calls axios.get(url) without a timeout option:
\* the default of axios, 0, means the request never times out
CodeforcesTimeout == 0

\* the longest a fetchAtCoderContests call can wait for its requests: three
\* attempts for each resource ID, the title search, the scrape and the
\* Problems API
AtCoderTimeBound ==
  Len(ResourceIds)
    * (AttemptTimeout(1) + AttemptTimeout(2) + AttemptTimeout(maxAttempts))
    + TitleTimeout + ScrapeTimeout + ProblemsTimeout

\* the time after which the fetch a call is waiting for gives up, 0 when
\* it never does
PendingTimeout(fetch) ==
  IF fetch.pc = "atcoder" THEN AtCoderTimeBound ELSE CodeforcesTimeout

\* the provider has not answered within the timeout: the fetcher's catch
\* block returns an empty list
TimesOut(k) ==
  /\ k \in 1..Len(fetches)
  /\ PendingTimeout(fetches[k]) > 0
  /\ IF fetches[k].pc = "atcoder" THEN AtCoderResolves(k, <<>>)
     ELSE CodeforcesResolves(k, <<>>)

NextFetch ==
  \/ fetchContests
  \/ \E k \in 1..MaxFetches : TimesOut(k)
  \/ \E k \in 1..Len(fetches) : \E answer \in AtCoderAnswers :
       AtCoderResolves(k, answer)
  \/ \E k \in 1..Len(fetches) : \E answer \in CodeforcesAnswers :
       CodeforcesResolves(k, answer)

SpecFetch == InitFetch /\ [][NextFetch]_vars

\* a request that carries a timeout settles: its timer is never starved
SpecFetchLive ==
  /\ InitFetch
  /\ [][NextFetch]_vars
  /\ \A k \in 1..MaxFetches : WF_vars(TimesOut(k))

(***************************************************************************)
(* The AtCoder cascade: what the sources answer and how each answer is     *)
(* turned into contest records.                                            *)
(***************************************************************************)
\* CLIST_USERNAME / CLIST_API_KEY: both set, one absent, or one still the
\* placeholder of the sample configuration
CredentialStates == {"set", "absent", "placeholder"}

CredentialsMissingUnlessPlaceholder(setting) == setting = "absent"

\* fetchAtCoderContests: the test that sends the call to the fallback
CredentialsMissing(setting) == setting \in {"absent", "placeholder"}

\* an object of a Clist.by answer: resource.name, href and event are reduced
\* to the platform each of them mentions; validStart and validEnd say
\* whether the start and the end parse to a date
TwoHours == 2 * Hour

ClistA == [resource |-> "atcoder", href |-> "atcoder", mentions |-> "none",
           event |-> <<"A">>, start |-> InOneDay, end |-> InOneDay + TwoHours,
           validStart |-> TRUE, validEnd |-> TRUE]
ClistByUrl == [resource |-> "none", href |-> "atcoder", mentions |-> "none",
               event |-> <<"F">>, start |-> InThirtyDays,
               end |-> InThirtyDays + TwoHours,
               validStart |-> TRUE, validEnd |-> TRUE]
ClistCf == [resource |-> "codeforces", href |-> "codeforces",
            mentions |-> "none", event |-> <<"B">>, start |-> InOneDay,
            end |-> InOneDay + TwoHours,
            validStart |-> TRUE, validEnd |-> TRUE]
ClistNoDate == [resource |-> "atcoder", href |-> "atcoder", mentions |-> "none",
                event |-> <<"P">>, start |-> 0, end |-> 0,
                validStart |-> FALSE, validEnd |-> FALSE]

ClistObjects == {ClistA, ClistByUrl, ClistCf, ClistNoDate}

ClistPlatformUrlFirst(object) ==
  IF object.href = "atcoder" THEN "AtCoder"
  ELSE IF object.href = "codeforces" THEN "Codeforces"
  ELSE IF object.resource = "atcoder" THEN "AtCoder"
  ELSE IF object.resource = "codeforces" THEN "Codeforces"
  ELSE IF object.mentions = "atcoder" THEN "AtCoder"
  ELSE IF object.mentions = "codeforces" THEN "Codeforces"
  ELSE "Unknown"

\* formatClistContests: the platform of one object
ClistPlatform(object) ==
  IF object.resource = "atcoder" THEN "AtCoder"
  ELSE IF object.resource = "codeforces" THEN "Codeforces"
  ELSE IF object.href = "atcoder" THEN "AtCoder"
  ELSE IF object.href = "codeforces" THEN "Codeforces"
  ELSE IF object.mentions = "atcoder" THEN "AtCoder"
  ELSE IF object.mentions = "codeforces" THEN "Codeforces"
  ELSE "Unknown"

\* what a 'map' callback returns for an item it skips
Null == [platform |-> "null"]

\* contests.filter(contest => contest !== null)
NotNull(records) == SelectSeq(records, LAMBDA record : record # Null)

\* formatClistContests: the record made of one object, null for an object
\* with an invalid date or an unknown platform
ClistRecord(object) ==
  IF ~object.validStart \/ ~object.validEnd THEN Null
  ELSE IF ClistPlatform(object) = "Unknown" THEN Null
  ELSE [platform |-> ClistPlatform(object), name |-> object.event,
        startTimeMs |-> object.start, endTimeMs |-> Num(object.end)]

formatClistContests(objects) ==
  NotNull([k \in 1..Len(objects) |-> ClistRecord(objects[k])])

\* formatted.filter(c => c.platform === 'AtCoder')
AtCoderOnly(contests) == SelectSeq(contests, LAMBDA c : c.platform = "AtCoder")

\* a row of the upcoming-contests table of the AtCoder website: parsable says
\* whether the name and start-time patterns match, duration holds the
\* numbers of the duration text split at ':', none when no text matches
HourMinute(hours, minutes) == <<hours, minutes>>

RowA == [name |-> <<"A">>, start |-> InOneDay, parsable |-> TRUE,
         duration |-> HourMinute(1, 40)]
RowPast == [name |-> <<"P">>, start |-> AnHourAgo, parsable |-> TRUE,
            duration |-> HourMinute(1, 40)]
RowBroken == [name |-> <<>>, start |-> 0, parsable |-> FALSE,
              duration |-> <<>>]
RowFar == [name |-> <<"F">>, start |-> InSixtyDays, parsable |-> TRUE,
           duration |-> <<>>]

ScrapeRows == {RowA, RowPast, RowBroken, RowFar}

\* a + b and a * b of JavaScript numbers
Plus(a, b) == IF a.nan \/ b.nan THEN NaN ELSE Num(a.val + b.val)
Times(a, b) == IF a.nan \/ b.nan THEN NaN ELSE Num(a.val * b.val)

\* an element of a destructured array: undefined, as a number NaN, past the
\* end
Element(parts, k) == IF k <= Len(parts) THEN Num(parts[k]) ELSE NaN

\* durationMatch ? durationMatch[1] : '2:00'
DefaultDuration == HourMinute(2, 0)

\* (hours * 60 + minutes) * 60 * 1000, in seconds
DurationMs(parts) ==
  Times(Plus(Times(Element(parts, 1), Num(60)), Element(parts, 2)), Num(60))

\* the record pushed for one row, null for a row the loop skips
ScrapedRecord(row, t) ==
  IF ~row.parsable \/ row.start < t THEN Null
  ELSE [platform |-> "AtCoder", name |-> row.name, startTimeMs |-> row.start,
        endTimeMs |->
          Plus(Num(row.start),
               DurationMs(IF row.duration = <<>> THEN DefaultDuration
                          ELSE row.duration))]

\* fetchAtCoderContestsFromProblems: the records scraped from the rows
ScrapedContests(rows, t) ==
  NotNull([k \in 1..Len(rows) |-> ScrapedRecord(rows[k], t)])

\* an entry of the AtCoder Problems answer: atcoderId says whether the id
\* starts with abc, arc or agc or contains 'atcoder', codeforces whether id
\* or title contains 'codeforces', validStart and validEnd whether
\* start_time and end_time parse to a date
ProblemsA == [title |-> <<"A">>, start |-> InOneDay,
              end |-> InOneDay + TwoHours, validStart |-> TRUE,
              validEnd |-> TRUE, atcoderId |-> TRUE, codeforces |-> FALSE]
ProblemsOther == [title |-> <<"H">>, start |-> InOneDay,
                  end |-> InOneDay + TwoHours, validStart |-> TRUE,
                  validEnd |-> TRUE, atcoderId |-> FALSE, codeforces |-> FALSE]
ProblemsCf == [title |-> <<"B">>, start |-> InOneDay,
               end |-> InOneDay + TwoHours, validStart |-> TRUE,
               validEnd |-> TRUE, atcoderId |-> TRUE, codeforces |-> TRUE]
ProblemsPast == [title |-> <<"P">>, start |-> AnHourAgo,
                 end |-> AnHourAgo + TwoHours, validStart |-> TRUE,
                 validEnd |-> TRUE, atcoderId |-> TRUE, codeforces |-> FALSE]

ProblemsEntries == {ProblemsA, ProblemsOther, ProblemsCf, ProblemsPast}

ProblemsPlatformCodeforces(entry) == "Codeforces"

\* fetchAtCoderContestsFromProblems: the platform of one entry
ProblemsPlatform(entry) ==
  IF entry.codeforces THEN "Codeforces"
  ELSE IF entry.atcoderId THEN "AtCoder" ELSE "Unknown"

\* fetchAtCoderContestsFromProblems: the record made of one entry, null for
\* an entry that is not upcoming, has an invalid date or an unknown platform
ProblemsRecord(entry, t) ==
  IF ~entry.validStart \/ ~(entry.start > t) THEN Null
  ELSE IF ~entry.validEnd THEN Null
  ELSE IF ProblemsPlatform(entry) = "Unknown" THEN Null
  ELSE [platform |-> ProblemsPlatform(entry), name |-> entry.title,
        startTimeMs |-> entry.start, endTimeMs |-> Num(entry.end)]

\* fetchAtCoderContestsFromProblems: upcoming entries of a known platform
ProblemsContests(entries, t) ==
  NotNull([k \in 1..Len(entries) |-> ProblemsRecord(entries[k], t)])

\* what a request can come back with: a transport timeout, another
\* transport error or error status, a body of unexpected shape, or a body
\* holding a list
Responses(items) ==
  {[kind |-> k, payload |-> <<>>] : k \in {"timeout", "error", "invalid"}}
    \cup {[kind |-> "list", payload |-> l] : l \in SeqsUpTo(items, MaxPayload)}

(***************************************************************************)
(* fetchAtCoderContests, one call, step by step: every request it sends    *)
(* and every answer it can get.                                            *)
(***************************************************************************)
\* the values CONTEST_DAYS_AHEAD has while fetchContests awaits
\* fetchAtCoderContests: the extended look-ahead written by a call that
\* found the variable unset, set to '3', or left as 'undefined' by an
\* earlier call
EnvAtCall ==
  {EnvAssign(Str(numberToString(
     MathMax(parseInt(OrElse(e, NumberToString(DefaultDaysAhead))),
             Num(AtCoderMinDaysAhead))))) :
     e \in Settings \cup {EnvAssign(Undefined)}}

InitCascade ==
  /\ now = FetchNow
  /\ SchedulerIdle
  /\ env \in EnvAtCall
  /\ configured = env
  /\ FetchIdle
  /\ credentials \in CredentialStates
  /\ CascadeIdle
  /\ TodayIdle
  /\ HealthIdle
  /\ FormatIdle

Request(source, resourceId, timeout) ==
  [source |-> source, resourceId |-> resourceId, timeout |-> timeout,
   outcome |-> "pending"]

\* the outcome of the pending request is known
Answered(outcome) ==
  [requests EXCEPT ![Len(requests)].outcome = outcome]

\* the call resolves
Resolve(list, response, outcome) ==
  /\ atcoderResult' = [done |-> TRUE, list |-> list, payload |-> response.payload]
  /\ cascade' = NoCascade
  /\ requests' = Answered(outcome)

\* the call moves on to its next request
MoveOn(pc, resource, attempts, outcome, request) ==
  /\ cascade' = [pc |-> pc, resource |-> resource, attempts |-> attempts]
  /\ requests' = Append(Answered(outcome), request)
  /\ UNCHANGED atcoderResult

\* fetchAtCoderContests up to its first await: without credentials, or when
\* the end of the look-ahead is not a date (toISOString throws), the call
\* goes to fetchAtCoderContestsFromProblems, otherwise to Clist.by
fetchAtCoderContests ==
  LET daysAhead == parseInt(OrElse(env, NumberToString(DefaultDaysAhead)))
  IN  /\ cascade.pc = "idle"
      /\ ~atcoderResult.done
      /\ IF CredentialsMissing(credentials) \/ daysAhead.nan
         THEN /\ cascade' = [pc |-> "scrape", resource |-> 0, attempts |-> 0]
              /\ requests' = <<Request("scrape", 0, ScrapeTimeout)>>
         ELSE /\ cascade' = [pc |-> "clist", resource |-> 1, attempts |-> 1]
              /\ requests' = <<Request("clist", ResourceIds[1], AttemptTimeout(1))>>
      /\ UNCHANGED <<now, nonCascadeVars, credentials, atcoderResult>>

\* attemptWithResourceId: a body of unexpected shape is followed by another
\* attempt while attempts remain
RetryInvalid(attempts) == attempts < maxAttempts

\* attemptWithResourceId: one answer of Clist.by to a request by resource ID
ClistResponds(response) ==
  LET atcoderContests == AtCoderOnly(formatClistContests(response.payload))
      found == response.kind = "list" /\ atcoderContests # <<>>
      again == \/ response.kind = "timeout" /\ cascade.attempts < maxAttempts
               \/ response.kind = "invalid" /\ RetryInvalid(cascade.attempts)
      outcome == IF response.kind # "list" THEN response.kind
                 ELSE IF found THEN "found" ELSE "none"
  IN  /\ cascade.pc = "clist"
      /\ IF found THEN Resolve(atcoderContests, response, outcome)
         ELSE IF again
           THEN MoveOn("clist", cascade.resource, cascade.attempts + 1, outcome,
                       Request("clist", ResourceIds[cascade.resource],
                               AttemptTimeout(cascade.attempts + 1)))
         ELSE IF cascade.resource < Len(ResourceIds)
           THEN MoveOn("clist", cascade.resource + 1, 1, outcome,
                       Request("clist", ResourceIds[cascade.resource + 1],
                               AttemptTimeout(1)))
         ELSE MoveOn("title", 0, 0, outcome, Request("title", 0, TitleTimeout))
      /\ UNCHANGED <<now, nonCascadeVars, credentials>>

\* fetchAtCoderContests: the answer of Clist.by to the title search
TitleResponds(response) ==
  LET atcoderContests == AtCoderOnly(formatClistContests(response.payload))
      found == response.kind = "list" /\ atcoderContests # <<>>
      outcome == IF response.kind # "list" THEN response.kind
                 ELSE IF found THEN "found" ELSE "none"
  IN  /\ cascade.pc = "title"
      /\ IF found THEN Resolve(atcoderContests, response, outcome)
         ELSE MoveOn("scrape", 0, 0, outcome,
                     Request("scrape", 0, ScrapeTimeout))
      /\ UNCHANGED <<now, nonCascadeVars, credentials>>

\* fetchAtCoderContestsFromProblems: the answer of the AtCoder website
ScrapeResponds(response) ==
  LET scrapedContests == ScrapedContests(response.payload, now)
      found == response.kind = "list" /\ scrapedContests # <<>>
      outcome == IF response.kind # "list" THEN response.kind
                 ELSE IF found THEN "found" ELSE "none"
  IN  /\ cascade.pc = "scrape"
      /\ IF found THEN Resolve(scrapedContests, response, outcome)
         ELSE MoveOn("problems", 0, 0, outcome,
                     Request("problems", 0, ProblemsTimeout))
      /\ UNCHANGED <<now, nonCascadeVars, credentials>>

\* fetchAtCoderContestsFromProblems: the answer of the AtCoder Problems API
ProblemsResponds(response) ==
  LET contests == IF response.kind = "list"
                  THEN ProblemsContests(response.payload, now) ELSE <<>>
      outcome == IF response.kind # "list" THEN response.kind
                 ELSE IF contests # <<>> THEN "found" ELSE "none"
  IN  /\ cascade.pc = "problems"
      /\ Resolve(contests, response, outcome)
      /\ UNCHANGED <<now, nonCascadeVars, credentials>>

NextCascade ==
  \/ fetchAtCoderContests
  \/ \E response \in Responses(ClistObjects) : ClistResponds(response)
  \/ \E response \in Responses(ClistObjects) : TitleResponds(response)
  \/ \E response \in Responses(ScrapeRows) : ScrapeResponds(response)
  \/ \E response \in Responses(ProblemsEntries) : ProblemsResponds(response)

SpecCascade == InitCascade /\ [][NextCascade]_vars

(***************************************************************************)
(* sendTodayContestReminders(client, channel).                             *)
(***************************************************************************)
sixHoursInMs == 6 * 60 * 60

\* the offsets from UTC of the configured TIMEZONE: UTC, Asia/Tokyo
TimezoneOffsets == {0, 9 * Hour}

\* formatDateInTimezone(date, 'date'): two instants give the same string
\* exactly when they fall on the same calendar day of the timezone
DayOf(t, offset) == (t + offset) \div DayMs

\* the instants at which the check runs
TodayInstants == {10 * Hour, 20 * Hour}

AtNoon == [platform |-> "Codeforces", name |-> <<"A">>, startTimeMs |-> 12 * Hour]
AtFive == [platform |-> "AtCoder", name |-> <<"B">>, startTimeMs |-> 17 * Hour]
AtEleven == [platform |-> "Codeforces", name |-> <<"C">>, startTimeMs |-> 23 * Hour]
NextMorning == [platform |-> "AtCoder", name |-> <<"D">>, startTimeMs |-> 30 * Hour]

\* the lists fetchContests can resolve to at instant t: upcoming contests,
\* sorted by start
TodayLists(t) ==
  {l \in SeqsUpTo({c \in {AtNoon, AtFive, AtEleven, NextMorning} :
                     c.startTimeMs >= t}, MaxToday) :
     l = SortByStart(l)}

InitToday ==
  /\ now \in TodayInstants
  /\ SchedulerIdle
  /\ env = Undefined
  /\ configured = Undefined
  /\ FetchIdle
  /\ credentials = "set"
  /\ CascadeIdle
  /\ \E offset \in TimezoneOffsets : today = [NoToday EXCEPT !.offset = offset]
  /\ todaySent = <<>>
  /\ HealthIdle
  /\ FormatIdle

\* the contests of a list that start on the calendar day of instant t
TodayContests(contests, t, offset) ==
  SelectSeq(contests, LAMBDA c : DayOf(c.startTimeMs, offset) = DayOf(t, offset))

\* the contests at least six hours away
FilteredContests(todayContests, t) ==
  SelectSeq(todayContests, LAMBDA c : c.startTimeMs >= t + sixHoursInMs)

\* the list the notification loop runs over: todayContests, sorted (the
\* loop does not read filteredContests)
NotifiedContests(todayContests, filteredContests) == SortByStart(todayContests)

\* the call up to await fetchContests
sendTodayContestReminders(channel) ==
  /\ today.pc = "idle"
  /\ today' = [today EXCEPT !.pc = "fetch", !.channel = channel]
  /\ UNCHANGED <<now, nonTodayVars, todaySent>>

\* fetchContests resolves: select today's contests and notify; with no
\* channel argument the first channel.send throws and the catch returns
TodayFetchResolves(contests) ==
  LET todayContests == TodayContests(contests, now, today.offset)
      filteredContests == FilteredContests(todayContests, now)
      notified == NotifiedContests(todayContests, filteredContests)
      sends == contests # <<>> /\ todayContests # <<>>
                 /\ today.channel = "provided"
  IN  /\ today.pc = "fetch"
      /\ todaySent' = IF sends THEN notified ELSE <<>>
      /\ today' = [today EXCEPT !.pc = "done", !.contests = contests,
                                !.result = sends]
      /\ UNCHANGED <<now, nonTodayVars>>

NextToday ==
  \/ \E channel \in {"provided", "undefined"} : sendTodayContestReminders(channel)
  \/ \E contests \in TodayLists(now) : TodayFetchResolves(contests)

SpecToday == InitToday /\ [][NextToday]_vars

(***************************************************************************)
(* runHealthChecks and its four probes.  A probe's result is a JavaScript  *)
(* value: "true", "false" or "undefined".                                  *)
(***************************************************************************)
Truthy(value) == value = "true"

\* a && b and a || b on JavaScript values
And(a, b) == IF Truthy(a) THEN b ELSE a
Or(a, b) == IF Truthy(a) THEN a ELSE b

\* response.status === 200; a status outside 2xx or a timeout makes
\* axios.get throw, which the probe catches
DiscordAnswers == {"200", "204", "error"}
DiscordResult(answer) == IF answer = "200" THEN "true" ELSE "false"

\* response.data.status === 'OK'; without a body the property access throws
\* and the probe catches
CodeforcesProbeAnswers == {"OK", "FAILED", "no body", "error"}
CodeforcesResult(answer) == IF answer = "OK" THEN "true" ELSE "false"

\* Array.isArray(response.data)
AtCoderProbeAnswers == {"array", "object", "error"}
AtCoderResult(answer) == IF answer = "array" THEN "true" ELSE "false"

\* response.status === 200 && response.data && response.data.objects &&
\* Array.isArray(response.data.objects): a body without 'objects' makes the
\* chain evaluate to undefined
ClistProbeAnswers == {"objects", "no objects", "204", "error"}
ClistResult(answer) ==
  CASE answer = "objects" -> "true"
    [] answer = "no objects" -> "undefined"
    [] OTHER -> "false"

AtCoderSourcesBoth(atcoderCheck, clistCheck) == And(atcoderCheck, clistCheck)

\* runHealthChecks: atcoderSourcesOk
AtCoderSourcesOk(atcoderCheck, clistCheck) == Or(atcoderCheck, clistCheck)

\* runHealthChecks: status
HealthStatus(discordCheck, codeforcesCheck, atcoderCheck, clistCheck) ==
  IF Truthy(And(And(discordCheck, codeforcesCheck),
                AtCoderSourcesOk(atcoderCheck, clistCheck)))
  THEN "healthy" ELSE "unhealthy"

InitHealth ==
  /\ now = 0
  /\ SchedulerIdle
  /\ env = Undefined
  /\ configured = Undefined
  /\ FetchIdle
  /\ credentials \in CredentialStates
  /\ CascadeIdle
  /\ TodayIdle
  /\ HealthIdle
  /\ FormatIdle

\* runHealthChecks up to await checkDiscordAPI()
runHealthChecks ==
  /\ health.pc = "idle"
  /\ health' = [health EXCEPT !.pc = "discord"]
  /\ UNCHANGED <<now, nonHealthVars>>

checkDiscordAPI(answer) ==
  /\ health.pc = "discord"
  /\ health' = [health EXCEPT !.pc = "codeforces",
                              !.discordCheck = DiscordResult(answer),
                              !.answers = Append(@, answer)]
  /\ UNCHANGED <<now, nonHealthVars>>

checkCodeforcesAPI(answer) ==
  /\ health.pc = "codeforces"
  /\ health' = [health EXCEPT !.pc = "atcoder",
                              !.codeforcesCheck = CodeforcesResult(answer),
                              !.answers = Append(@, answer)]
  /\ UNCHANGED <<now, nonHealthVars>>

checkAtCoderAPI(answer) ==
  /\ health.pc = "atcoder"
  /\ health' = [health EXCEPT !.pc = "clist",
                              !.atcoderCheck = AtCoderResult(answer),
                              !.answers = Append(@, answer)]
  /\ UNCHANGED <<now, nonHealthVars>>

\* checkClistAPI and the rest of runHealthChecks; without credentials the
\* probe returns false before any request
checkClistAPI(answer) ==
  LET asked == ~CredentialsMissing(credentials)
      clistCheck == IF asked THEN ClistResult(answer) ELSE "false"
  IN  /\ health.pc = "clist"
      /\ health' = [health EXCEPT
                      !.pc = "done",
                      !.clistCheck = clistCheck,
                      !.answers = Append(@, IF asked THEN answer ELSE "not asked"),
                      !.status = HealthStatus(health.discordCheck,
                                              health.codeforcesCheck,
                                              health.atcoderCheck, clistCheck)]
      /\ UNCHANGED <<now, nonHealthVars>>

NextHealth ==
  \/ runHealthChecks
  \/ \E answer \in DiscordAnswers : checkDiscordAPI(answer)
  \/ \E answer \in CodeforcesProbeAnswers : checkCodeforcesAPI(answer)
  \/ \E answer \in AtCoderProbeAnswers : checkAtCoderAPI(answer)
  \/ \E answer \in ClistProbeAnswers : checkClistAPI(answer)

SpecHealth == InitHealth /\ [][NextHealth]_vars

(***************************************************************************)
(* The adapters as functions of a provider's answer: the records each of   *)
(* them builds from the items of one answer.                               *)
(***************************************************************************)
Mentions == {"atcoder", "codeforces", "none"}

ClistObject(resource, href, mentions, validStart, validEnd, end) ==
  [resource |-> resource, href |-> href, mentions |-> mentions,
   event |-> <<"A">>, start |-> InOneDay, end |-> end,
   validStart |-> validStart, validEnd |-> validEnd]

\* the objects Clist.by can answer with: every combination of what the
\* three fields mention, dates that parse or not, an end after the start
\* or not
AnyClistObjects ==
  {ClistObject(r, h, m, v[1], v[2], InOneDay + TwoHours) :
     r \in Mentions, h \in Mentions, m \in Mentions,
     v \in {<<TRUE, TRUE>>, <<TRUE, FALSE>>, <<FALSE, TRUE>>}}
    \cup {ClistObject("atcoder", "atcoder", "none", TRUE, TRUE, e) :
            e \in {InOneDay, InOneDay - Hour}}

\* an entry of the result of contest.list of the Codeforces API
AnyCodeforcesContests ==
  {[phase |-> p, name |-> <<"A">>, startTimeSeconds |-> InOneDay,
    durationSeconds |-> d] :
     p \in {"BEFORE", "FINISHED"}, d \in {TwoHours, 0}}

\* fetchCodeforcesContests: the record made of one entry, null for an entry
\* the phase filter removes
CodeforcesRecord(contest) ==
  IF contest.phase # "BEFORE" THEN Null
  ELSE [platform |-> "Codeforces", name |-> contest.name,
        startTimeMs |-> contest.startTimeSeconds,
        endTimeMs |-> Plus(Num(contest.startTimeSeconds),
                           Num(contest.durationSeconds))]

CodeforcesContests(result) ==
  NotNull([k \in 1..Len(result) |-> CodeforcesRecord(result[k])])

AnyScrapeRows ==
  {[name |-> <<"A">>, start |-> s, parsable |-> p, duration |-> d] :
     s \in {AnHourAgo, InOneDay}, p \in BOOLEAN,
     d \in {<<>>, HourMinute(1, 40), HourMinute(0, 0), <<120>>}}

AnyProblemsEntries ==
  {[title |-> <<"A">>, start |-> s, end |-> s + TwoHours, validStart |-> vs,
    validEnd |-> ve, atcoderId |-> a, codeforces |-> c] :
     s \in {AnHourAgo, InOneDay}, vs \in BOOLEAN, ve \in BOOLEAN,
     a \in BOOLEAN, c \in BOOLEAN}

InitFormat ==
  /\ now = FetchNow
  /\ SchedulerIdle
  /\ env = Undefined
  /\ configured = Undefined
  /\ FetchIdle
  /\ credentials = "set"
  /\ CascadeIdle
  /\ TodayIdle
  /\ HealthIdle
  /\ FormatIdle

\* one answer, the first of a run, is turned into records
Formatted(adapter, input, output) ==
  /\ formatted' = [adapter |-> adapter, input |-> input, output |-> output]
  /\ UNCHANGED <<now, nonFormatVars>>

\* formatClistContests applied to the objects of an answer
ClistFormatted(objects) ==
  Formatted("clist", objects, formatClistContests(objects))

\* fetchCodeforcesContests applied to the result of an answer
CodeforcesFormatted(result) ==
  Formatted("codeforces", result, CodeforcesContests(result))

\* the scrape branch applied to the rows of the upcoming-contests table
ScrapeFormatted(rows) ==
  Formatted("scrape", rows, ScrapedContests(rows, now))

\* the Problems API branch applied to the entries of an answer
ProblemsFormatted(entries) ==
  Formatted("problems", entries, ProblemsContests(entries, now))

NextFormat ==
  \/ /\ FormatIdle
     /\ \E objects \in SeqsUpTo(AnyClistObjects, MaxItems) :
          ClistFormatted(objects)
  \/ /\ FormatIdle
     /\ \E result \in SeqsUpTo(AnyCodeforcesContests, MaxItems) :
          CodeforcesFormatted(result)
  \/ /\ FormatIdle
     /\ \E rows \in SeqsUpTo(AnyScrapeRows, MaxItems) : ScrapeFormatted(rows)
  \/ /\ FormatIdle
     /\ \E entries \in SeqsUpTo(AnyProblemsEntries, MaxItems) :
          ProblemsFormatted(entries)

SpecFormat == InitFormat /\ [][NextFormat]_vars

(***************************************************************************)
(* The identity of a contest as a function of its fields: the contestId    *)
(* scheduleReminders computes for each of two contests of a list.          *)
(***************************************************************************)
\* the characters a contest name is made of: a letter, a digit, the
\* separator of the template
NameChars == {"A", "1", "-"}

\* startTimeMs of a contest the aggregator returns: a positive integer
StartTimes == {1, 11, 21}

AnyContests ==
  {[platform |-> p, name |-> n, startTimeMs |-> s] :
     p \in {"Codeforces", "AtCoder"}, n \in SeqsUpTo(NameChars, MaxName),
     s \in StartTimes}

\* the contestId of each contest of a list
ContestIds(contests) == [k \in 1..Len(contests) |-> ContestId(contests[k])]

\* scheduleReminders computes the contestId of the contests of a list
ContestIdsComputed(contests) ==
  Formatted("contestId", contests, ContestIds(contests))

NextIdentity ==
  /\ FormatIdle
  /\ \E contests \in [1..2 -> AnyContests] : ContestIdsComputed(contests)

SpecIdentity == InitFormat /\ [][NextIdentity]_vars

(***************************************************************************)
(* Derived history.                                                        *)
(***************************************************************************)
\* the scheduleReminders calls so far, oldest first
Arms == SelectSeq(refreshLog, LAMBDA e : e.armed)

LastOf(log) == log[Len(log)]

\* number of channel.send calls made for the pair (contestId, timeText)
SendsOf(contestId, timeText) ==
  Cardinality({k \in 1..Len(sendLog) :
                 sendLog[k].contestId = contestId /\ sendLog[k].timeText = timeText})

\* the reminder jobs of the pair that are armed or whose callback is running
LiveJobsOf(contestId, timeText) ==
  {j \in ReminderJobs(scheduledJobs) \cup {r.job : r \in running} :
     j.contestId = contestId /\ j.timeText = timeText}

(***************************************************************************)
(* C1: over a whole run, whatever the interleaving of refreshes, timer     *)
(* firings and clock advances, no (contest identity, offset) pair is the   *)
(* subject of more than one channel.send.                                  *)
(***************************************************************************)
C1_AtMostOnceDelivery ==
  \A k1, k2 \in 1..Len(sendLog) :
    (/\ sendLog[k1].contestId = sendLog[k2].contestId
     /\ sendLog[k1].timeText = sendLog[k2].timeText) => k1 = k2

\* a reminder was sent, then a later arming whose list still holds the
\* contest emptied the dedup sets
C1_Witness ==
  \E k \in 1..Len(sendLog) : \E n \in 1..Len(Arms) :
    /\ Arms[n].epoch > sendLog[k].epoch
    /\ \E i \in 1..Len(Arms[n].list) : Arms[n].list[i] = sendLog[k].contest
    /\ sendLog[k].contestId \notin sentReminders[DedupKey(sendLog[k].timeText)]

(***************************************************************************)
(* C2: when the fetch of a refresh (scheduleContestReminders or            *)
(* refreshContests) has returned list L, empty or not, the armed reminder  *)
(* tasks are exactly the pairs (c, o) with c in L and c.startTimeMs - o    *)
(* later than the instant of arming, none of them is left from an earlier  *)
(* epoch, and the dedup sets are empty.                                    *)
(***************************************************************************)
C2_EachRefreshSupersedes ==
  (/\ refreshLog # <<>>
   /\ now = LastOf(refreshLog).at
   /\ epoch = LastOf(refreshLog).epoch) =>
    LET top == LastOf(refreshLog)
    IN  /\ {<<j.contest, j.timeText>> : j \in ReminderJobs(scheduledJobs)} =
             {p \in {<<top.list[i], o>> : i \in 1..Len(top.list), o \in TimeTexts} :
                p[1].startTimeMs - OffsetOf(p[2]) > top.at}
        /\ \A j \in ReminderJobs(scheduledJobs) :
             top.armed /\ j.epoch = top.epoch
        /\ sentReminders = EmptySent

(***************************************************************************)
(* C3: when scheduleReminders has been called exactly twice, both times    *)
(* with the same list, and every timer has elapsed and every delivery has  *)
(* succeeded, each pair whose fire time was in the future at the second    *)
(* call has exactly one delivery, a pair whose fire time was not in the    *)
(* future at the first call has none, and no pair has two.                 *)
(***************************************************************************)
C3_Settled ==
  /\ Len(Arms) = 2
  /\ Arms[1].list = Arms[2].list
  /\ epoch = Arms[2].epoch
  /\ ReminderJobs(scheduledJobs) = {}
  /\ running = {}
  /\ failLog = {}

C3_ArmingIsIdempotent ==
  C3_Settled =>
    \A i \in 1..Len(Arms[2].list) : \A o \in TimeTexts :
      LET c == Arms[2].list[i]
          fireAt == c.startTimeMs - OffsetOf(o)
          n == SendsOf(ContestId(c), o)
      IN  /\ fireAt > Arms[2].at => n = 1
          /\ fireAt <= Arms[1].at => n = 0
          /\ n <= 1

\* two successive armings of one list at one instant, all reminders delivered
C3_Witness ==
  /\ C3_Settled
  /\ Arms[1].at = Arms[2].at
  /\ Len(sendLog) >= 2

(***************************************************************************)
(* C4: once the 'ready' handler has registered the periodic refresh job,   *)
(* the job stays scheduled whatever arming calls run afterwards.           *)
(***************************************************************************)
C4_DailyRefreshStaysScheduled ==
  ready = "done" => CronJob \in scheduledJobs

(***************************************************************************)
(* C5: a '6 hours' task never fires once a later scheduleReminders call    *)
(* has run before its fire time; and when a pair armed by an earlier call  *)
(* was armed again by the last call before its fire time and its timer has *)
(* elapsed with a working channel, exactly one '6 hours' reminder of the   *)
(* contest was sent, by the task of the last call.                         *)
(***************************************************************************)
C5_Rearmed(n, i) ==
  LET a == Arms[n]
      c == a.list[i]
  IN  /\ n = Len(Arms)
      /\ epoch = a.epoch
      /\ c.startTimeMs - sixHoursBefore > a.at
      /\ \E m \in 1..(n - 1) : \E h \in 1..Len(Arms[m].list) :
           /\ Arms[m].list[h] = c
           /\ c.startTimeMs - sixHoursBefore > Arms[m].at
      /\ LiveJobsOf(ContestId(c), "6 hours") = {}
      /\ \A j \in failLog : ~(j.contestId = ContestId(c) /\ j.timeText = "6 hours")

C5_RearmReplacesStaleTask ==
  /\ \A f \in fired : \A n \in 1..Len(Arms) :
       (f.job.timeText = "6 hours" /\ Arms[n].epoch > f.job.epoch)
         => Arms[n].at >= f.job.fireAt
  /\ \A n \in 1..Len(Arms) : \A i \in 1..Len(Arms[n].list) :
       C5_Rearmed(n, i) =>
         /\ SendsOf(ContestId(Arms[n].list[i]), "6 hours") = 1
         /\ \A k \in 1..Len(sendLog) :
              (/\ sendLog[k].contestId = ContestId(Arms[n].list[i])
               /\ sendLog[k].timeText = "6 hours")
                => sendLog[k].epoch = Arms[n].epoch

\* the '6 hours' task was armed twice before its fire time and has delivered
C5_Witness ==
  \E n \in 1..Len(Arms) : \E i \in 1..Len(Arms[n].list) :
    /\ C5_Rearmed(n, i)
    /\ SendsOf(ContestId(Arms[n].list[i]), "6 hours") = 1

(***************************************************************************)
(* C6: right after scheduleReminders has armed list L at instant t, a task *)
(* exists for entry i of L and offset o if and only if                     *)
(* L[i].startTimeMs - o > t, and there is no other reminder task; an entry *)
(* starting 2 hours after t has the '30 minutes' task and no other, an     *)
(* entry whose start is not after t has none.                              *)
(***************************************************************************)
C6_JustArmed ==
  /\ refreshLog # <<>>
  /\ LastOf(refreshLog).armed
  /\ now = LastOf(refreshLog).at
  /\ epoch = LastOf(refreshLog).epoch

C6_TasksOf(i) == {j \in ReminderJobs(scheduledJobs) : j.idx = i}

C6_OnlyFutureOffsetsArmed ==
  C6_JustArmed =>
    LET L == LastOf(refreshLog).list
        t == LastOf(refreshLog).at
        lead == [o \in TimeTexts |->
                   IF o = "1 day" THEN 24 * 60 * 60
                   ELSE IF o = "6 hours" THEN 6 * 60 * 60 ELSE 30 * 60]
    IN  /\ \A i \in 1..Len(L) : \A o \in TimeTexts :
             (\E j \in C6_TasksOf(i) :
                /\ j.timeText = o
                /\ j.contest = L[i]
                /\ j.fireAt = L[i].startTimeMs - lead[o])
               <=> (L[i].startTimeMs - lead[o] > t)
        /\ \A j \in ReminderJobs(scheduledJobs) :
             /\ j.idx \in 1..Len(L)
             /\ j.timeText \in TimeTexts
             /\ j.contest = L[j.idx]
        /\ \A i \in 1..Len(L) :
             /\ Cardinality(C6_TasksOf(i)) =
                  Cardinality({o \in TimeTexts : L[i].startTimeMs - lead[o] > t})
             /\ L[i].startTimeMs = t + 2 * 60 * 60 =>
                  /\ Cardinality(C6_TasksOf(i)) = 1
                  /\ \A j \in C6_TasksOf(i) : j.timeText = "30 minutes"
             /\ L[i].startTimeMs <= t => C6_TasksOf(i) = {}

\* an arming whose list holds a contest starting in 2 hours and a contest
\* with all three offsets ahead
C6_Witness ==
  /\ C6_JustArmed
  /\ \E i \in 1..Len(LastOf(refreshLog).list) :
       /\ LastOf(refreshLog).list[i].startTimeMs = now + 2 * 60 * 60
       /\ Cardinality(C6_TasksOf(i)) = 1
  /\ \E i \in 1..Len(LastOf(refreshLog).list) : Cardinality(C6_TasksOf(i)) = 3

\* an arming whose list holds a contest that starts at the instant of arming
C6_WitnessStarted ==
  /\ C6_JustArmed
  /\ \E i \in 1..Len(LastOf(refreshLog).list) :
       LastOf(refreshLog).list[i].startTimeMs <= now

(***************************************************************************)
(* C7: after the delivery of a firing task has failed, the callback has    *)
(* ended, its pair is still in the dedup set for as long as the epoch      *)
(* lasts, and the failed attempt is the only delivery attempt made for the *)
(* pair in that epoch.                                                     *)
(***************************************************************************)
C7_FailedDeliveryNotRetried ==
  \A j \in failLog :
    /\ \A r \in running : r.job # j
    /\ j.epoch = epoch => j.contestId \in sentReminders[DedupKey(j.timeText)]
    /\ {f.job : f \in {g \in fired :
                        /\ g.passed
                        /\ g.job.contestId = j.contestId
                        /\ g.job.timeText = j.timeText
                        /\ g.job.epoch = j.epoch}} = {j}

\* a delivery failed and a second task of the same pair and epoch fired
\* afterwards without attempting a delivery
C7_Witness ==
  \E j \in failLog : \E f \in fired :
    /\ j.epoch = epoch
    /\ f.job # j
    /\ f.job.contestId = j.contestId
    /\ f.job.timeText = j.timeText
    /\ f.job.epoch = j.epoch
    /\ ~f.passed

(***************************************************************************)
(* Claims about the list fetchContests returns.                            *)
(***************************************************************************)
Range(list) == {list[i] : i \in 1..Len(list)}

Identity(contest) == <<contest.platform, contest.name, contest.startTimeMs>>

\* the look-ahead the process was configured with
StandardDaysAhead == parseInt(OrElse(configured, NumberToString(DefaultDaysAhead)))

\* the records of a list that start at a given instant, in list order
StartingAt(list, start) == SelectSeq(list, LAMBDA c : c.startTimeMs = start)

\* alphabetical order of the platform names and of the name characters
PlatformRank(platform) == IF platform = "AtCoder" THEN 1 ELSE 2
Alphabet == <<"A", "B", "C", "D", "E", "F", "G", "H", "I", "J", "K", "L", "M",
              "N", "O", "P", "Q", "R", "S", "T", "U", "V", "W", "X", "Y", "Z">>
CharRank(ch) == CHOOSE i \in 1..Len(Alphabet) : Alphabet[i] = ch

RECURSIVE NameLeq(_, _)
NameLeq(a, b) ==
  IF a = <<>> THEN TRUE
  ELSE IF b = <<>> THEN FALSE
  ELSE IF CharRank(Head(a)) # CharRank(Head(b))
       THEN CharRank(Head(a)) < CharRank(Head(b))
       ELSE NameLeq(Tail(a), Tail(b))

TieOrdered(a, b) ==
  \/ PlatformRank(a.platform) < PlatformRank(b.platform)
  \/ a.platform = b.platform /\ NameLeq(a.name, b.name)

\* C8: in every list returned by fetchContests no two records at different
\* positions have the same identity (platform, name, startTimeMs), whatever
\* the sources answer.
C8_UniqueAfterAggregation ==
  returned.done =>
    \A i, j \in 1..Len(returned.list) :
      i # j => Identity(returned.list[i]) # Identity(returned.list[j])

C10_WindowFilter ==
  returned.done =>
    \A i \in 1..Len(returned.list) :
      InTimeRange(returned.list[i], returned.at, StandardDaysAhead)

\* the records of a fetcher's answer that start inside the standard window
InWindow(answer, t) ==
  {c \in Range(answer) : InTimeRange(c, t, StandardDaysAhead)}

\* C11: fetchContests resolves to a list, and when one platform fails
\* completely (its fetcher resolves to the empty list) the contests of the
\* other platform that start inside the standard window are still returned.
C11_OtherPlatformStillReturned ==
  returned.done =>
    /\ returned.atcoderContests = <<>> =>
         InWindow(returned.codeforcesContests, returned.at)
           \subseteq Range(returned.list)
    /\ returned.codeforcesContests = <<>> =>
         InWindow(returned.atcoderContests, returned.at)
           \subseteq Range(returned.list)

\* C19: after fetchContests returns, CONTEST_DAYS_AHEAD has exactly the value
\* (or absence) it had before the call: whenever no call is in progress the
\* variable holds what the process was configured with.
C19_LookAheadUnchangedByFetch ==
  (returned.done /\ fetches = <<>>) => env = configured

(***************************************************************************)
(* Claims about the AtCoder cascade.                                       *)
(***************************************************************************)
\* what a call that queries only this source resolves to for this body
SourceAlone(source, payload, t) ==
  CASE source \in {"clist", "title"} -> AtCoderOnly(formatClistContests(payload))
    [] source = "scrape" -> ScrapedContests(payload, t)
    [] source = "problems" -> ProblemsContests(payload, t)

\* position of a request in the documented order of sources
Rank(request) ==
  CASE request.source = "clist" /\ request.resourceId = 2 -> 1
    [] request.source = "clist" /\ request.resourceId = 93 -> 2
    [] request.source = "title" -> 3
    [] request.source = "scrape" -> 4
    [] request.source = "problems" -> 5

\* C12: after a Clist request came back with a body of unexpected shape, the
\* call sends no further request to the same adapter and resource ID.
C12_InvalidNotRetried ==
  \A i, j \in 1..Len(requests) :
    (i < j /\ requests[i].source = "clist" /\ requests[i].outcome = "invalid")
      => requests[j].resourceId # requests[i].resourceId

\* an item of a body that is a valid upcoming AtCoder contest
ValidAtCoderItem(source, item, t) ==
  CASE source \in {"clist", "title"} ->
         /\ item.validStart /\ item.validEnd
         /\ ClistPlatform(item) = "AtCoder"
    [] source = "scrape" -> item.parsable /\ item.start >= t
    [] source = "problems" ->
         /\ item.atcoderId /\ ~item.codeforces
         /\ item.validStart /\ item.validEnd /\ item.start > t

\* the preferred source timed out twice and then answered with a body of
\* unexpected shape, and a later source answered with valid AtCoder contests
C13_Scenario ==
  /\ atcoderResult.done
  /\ Len(requests) >= 4
  /\ \A i \in 1..3 : requests[i].source = "clist" /\ requests[i].resourceId = 2
  /\ requests[1].outcome = "timeout"
  /\ requests[2].outcome = "timeout"
  /\ requests[3].outcome = "invalid"
  /\ atcoderResult.payload # <<>>
  /\ \A k \in 1..Len(atcoderResult.payload) :
       ValidAtCoderItem(LastOf(requests).source, atcoderResult.payload[k], now)

C14_CascadeOrder ==
  /\ \A i, j \in 1..Len(requests) :
       i < j => Rank(requests[i]) <= Rank(requests[j])
  /\ \A i \in 1..(Len(requests) - 1) :
       /\ Rank(requests[i + 1]) <= Rank(requests[i]) + 1
       /\ requests[i].outcome \notin {"found", "pending"}
  /\ requests # <<>> => Rank(requests[1]) \in {1, 4}
  /\ (atcoderResult.done /\ LastOf(requests).outcome = "found") =>
       atcoderResult.list =
         SourceAlone(LastOf(requests).source, atcoderResult.payload, now)

\* a call went through all five sources and the last one yielded
C14_Witness ==
  /\ atcoderResult.done
  /\ {Rank(requests[i]) : i \in 1..Len(requests)} = 1..5
  /\ LastOf(requests).outcome = "found"

\* C15: with CLIST_USERNAME or CLIST_API_KEY absent or still a placeholder
\* the call sends no request to Clist.by: its first request is the website
\* scrape, the only other one the Problems API, and it resolves to what the
\* last of them gave.
C15_NoCredentialsNoClist ==
  credentials \in {"absent", "placeholder"} =>
    /\ \A i \in 1..Len(requests) : requests[i].source \in {"scrape", "problems"}
    /\ requests # <<>> => requests[1].source = "scrape"
    /\ Len(requests) <= 2
    /\ cascade.pc = "idle" /\ requests # <<>> =>
         /\ atcoderResult.done
         /\ atcoderResult.list =
              IF LastOf(requests).outcome \in {"found", "none"}
              THEN SourceAlone(LastOf(requests).source, atcoderResult.payload, now)
              ELSE <<>>

\* a call with placeholder credentials resolved with the Problems API's
\* contests
C15_Witness ==
  /\ credentials = "placeholder"
  /\ atcoderResult.done
  /\ Len(requests) = 2
  /\ LastOf(requests).source = "problems"
  /\ atcoderResult.list # <<>>

(***************************************************************************)
(* Claims about overlapping refreshes and running callbacks.               *)
(***************************************************************************)
\* C16: at every instant the armed reminder tasks are tasks computed by the
\* scheduleReminders call that executed last, never a mixture of two calls:
\* they all carry its epoch, and until something is cancelled again they are
\* exactly its tasks that have not fired yet.
C16_MostRecentArmingWins ==
  IF Arms = <<>> THEN ReminderJobs(scheduledJobs) = {}
  ELSE LET last == LastOf(Arms)
           computed == ArmedJobs(last.list, last.at, last.epoch)
       IN  /\ ReminderJobs(scheduledJobs) \subseteq computed
           /\ epoch = last.epoch =>
                ReminderJobs(scheduledJobs) = computed \ {f.job : f \in fired}

\* two scheduleReminders calls with different lists have run and tasks are
\* armed
C16_Witness ==
  /\ Len(Arms) = 2
  /\ Arms[1].list # Arms[2].list
  /\ Arms[1].list # <<>>
  /\ ReminderJobs(scheduledJobs) # {}

\* C17: once a re-arm has cancelled the tasks of an epoch, no reminder of a
\* task of that epoch is sent to the channel: every channel.send is made for
\* a task of the current epoch, also when the task's callback had started
\* before the re-arm.
C17_NoSendAfterCancel ==
  [][sendLog' # sendLog => LastOf(sendLog').epoch = epoch]_vars

(***************************************************************************)
(* Claims about the today check and the health report.                     *)
(***************************************************************************)
\* C18: sendTodayContestReminders sends a notification only for contests
\* that start today and at least 6 hours after the moment of the check.
C18_TodayCheckSkipsNearContests ==
  \A k \in 1..Len(todaySent) :
    /\ DayOf(todaySent[k].startTimeMs, today.offset) = DayOf(now, today.offset)
    /\ todaySent[k].startTimeMs >= now + sixHoursInMs

\* the four probe results of a finished health report
ProbeResults ==
  <<health.discordCheck, health.codeforcesCheck, health.atcoderCheck,
    health.clistCheck>>

\* runHealthChecks reports 'healthy' exactly when the Discord probe and the
\* Codeforces probe succeeded and at least one of the two AtCoder source
\* probes succeeded
HealthyIffRequiredProbesOk ==
  health.status = "healthy" <=>
    /\ health.answers[1] = "200"
    /\ health.answers[2] = "OK"
    /\ health.answers[3] = "array" \/ health.answers[4] = "objects"

AttemptsFor(resourceId) ==
  SelectSeq([i \in 1..Len(requests) |-> i],
            LAMBDA i : /\ requests[i].source = "clist"
                       /\ requests[i].resourceId = resourceId)

RequestedDaysAhead ==
  parseInt(OrElse(env, NumberToString(DefaultDaysAhead)))

\* C22: when a source other than the last one of the cascade is accepted
\* (the call resolves to its records), its records include an AtCoder
\* record that starts within the requested window; a source whose records
\* all start after the end of the window is passed over.
C22_AcceptedHasInWindowRecord ==
  (/\ atcoderResult.done
   /\ ~RequestedDaysAhead.nan
   /\ LastOf(requests).outcome = "found"
   /\ LastOf(requests).source # "problems") =>
    \E k \in 1..Len(atcoderResult.list) :
      /\ atcoderResult.list[k].platform = "AtCoder"
      /\ InTimeRange(atcoderResult.list[k], now, RequestedDaysAhead)

(***************************************************************************)
(* Claims about the records the adapters build.                            *)
(***************************************************************************)
\* the platform the n-th detection rule gives an object: rule 1 reads the
\* resource name, rule 2 the URL, rule 3 the contest name
RuleGives(object, n) ==
  CASE n = 1 -> object.resource
    [] n = 2 -> object.href
    [] n = 3 -> object.mentions

PlatformName(mention) ==
  IF mention = "atcoder" THEN "AtCoder" ELSE "Codeforces"

\* the objects formatClistContests must keep: both dates parse and some
\* rule matches
Kept(object) ==
  /\ object.validStart
  /\ object.validEnd
  /\ \E n \in 1..3 : RuleGives(object, n) # "none"

FirstRule(object) ==
  CHOOSE n \in 1..3 :
    /\ RuleGives(object, n) # "none"
    /\ \A m \in 1..(n - 1) : RuleGives(object, m) = "none"

\* C23: formatClistContests returns one record per object whose dates
\* parse and that matches a detection rule, in the order of the objects,
\* with the platform of the first matching rule among resource name, URL,
\* contest name; other objects are dropped and no record has platform
\* 'Unknown'.
C23_DetectionRuleOrder ==
  formatted.adapter = "clist" =>
    LET kept == SelectSeq(formatted.input, Kept)
    IN  /\ Len(formatted.output) = Len(kept)
        /\ \A k \in 1..Len(kept) :
             /\ formatted.output[k].platform =
                  PlatformName(RuleGives(kept[k], FirstRule(kept[k])))
             /\ formatted.output[k].platform # "Unknown"
             /\ formatted.output[k].name = kept[k].event
             /\ formatted.output[k].startTimeMs = kept[k].start

\* an answer of two objects: the resource names Codeforces while URL and
\* contest name mention AtCoder, and an object no rule matches
C23_Witness ==
  /\ formatted.adapter = "clist"
  /\ Len(formatted.input) = 2
  /\ formatted.input[1].resource = "none"
  /\ formatted.input[1].href = "none"
  /\ formatted.input[1].mentions = "none"
  /\ formatted.input[2].resource = "codeforces"
  /\ formatted.input[2].href = "atcoder"
  /\ formatted.input[2].mentions = "atcoder"
  /\ Len(formatted.output) = 1
  /\ formatted.output[1].platform = "Codeforces"

\* C29: every record an adapter builds has a numeric endTimeMs later than
\* its startTimeMs, and a scraped row without a duration text gets the end
\* two hours after its start.
C29_RecordWellFormed ==
  /\ \A k \in 1..Len(formatted.output) :
       /\ ~formatted.output[k].endTimeMs.nan
       /\ formatted.output[k].startTimeMs < formatted.output[k].endTimeMs.val
  /\ formatted.adapter = "scrape" =>
       LET kept == SelectSeq(formatted.input,
                             LAMBDA row : row.parsable /\ row.start >= now)
       IN  \A k \in 1..Len(kept) :
             kept[k].duration = <<>> =>
               formatted.output[k].endTimeMs = Num(kept[k].start + 2 * Hour)

(***************************************************************************)
(* Claims about the tasks of one epoch.                                    *)
(***************************************************************************)
\* the callbacks that ran for the pair of job among the tasks of its epoch
FiredTwins(job) ==
  {f \in fired : /\ f.job.epoch = job.epoch
                 /\ f.job.contestId = job.contestId
                 /\ f.job.timeText = job.timeText}

\* C24: among the tasks of one epoch that carry the same (identity,
\* offset) and whose timers have elapsed, exactly one passes the dedup
\* check and goes on to delivery; the others are discarded and nothing is
\* sent for them.
C24_DedupInsertIfAbsent ==
  /\ \A f \in fired :
       Cardinality({g \in FiredTwins(f.job) : g.passed}) = 1
  /\ \A f \in fired :
       ~f.passed => /\ \A r \in running : r.job # f.job
                    /\ \A k \in 1..Len(sendLog) : sendLog[k] # f.job

\* the list held the same contest twice and both tasks of one offset have
\* run their callback
C24_Witness ==
  \E f, g \in fired :
    /\ f.job # g.job
    /\ g \in FiredTwins(f.job)
    /\ f.passed
    /\ ~g.passed
    /\ \E k \in 1..Len(sendLog) : sendLog[k] = f.job

\* the tasks whose callback has run
FiredJobs(log) == {f.job : f \in log}

\* C25: a reminder task leaves Armed once, by firing or by being cancelled.
\* A callback runs only for a task that is armed, belongs to the current
\* epoch (a re-arm cancels the tasks of the earlier ones) and has not run
\* before; afterwards the task is no longer armed, and no task of an
\* earlier epoch or that has fired is ever armed again.
C25_TaskStateMachine ==
  [][/\ \A f \in fired' \ fired :
          /\ f.job \in ReminderJobs(scheduledJobs)
          /\ f.job.epoch = epoch
          /\ f.job \notin FiredJobs(fired)
          /\ f.job \notin scheduledJobs'
     /\ \A job \in ReminderJobs(scheduledJobs') :
          /\ job.epoch = epoch'
          /\ job \notin FiredJobs(fired')]_vars

\* a task of the first arming has fired, another task of that arming was
\* cancelled by the second arming before its fire time
C25_Witness ==
  /\ Len(Arms) = 2
  /\ \E f \in fired : f.job.epoch = Arms[1].epoch
  /\ \E job \in ArmedJobs(Arms[1].list, Arms[1].at, Arms[1].epoch) :
       /\ job \notin FiredJobs(fired)
       /\ job \notin scheduledJobs
       /\ job.fireAt > Arms[2].at

\* C26: a step in which a delivery fails inside a task's callback changes
\* nothing but that callback: the armed tasks, the refresh calls under way
\* and their arming passes, the dedup marks and the other running
\* callbacks are as before, so every other task still fires at its time.
C26_DeliveryErrorIsolated ==
  [][failLog' # failLog =>
       /\ scheduledJobs' = scheduledJobs
       /\ calls' = calls
       /\ refreshLog' = refreshLog
       /\ epoch' = epoch
       /\ sentReminders' = sentReminders
       /\ \E r \in running : /\ failLog' = failLog \cup {r.job}
                              /\ running' = running \ {r}]_vars

\* a delivery failed while a task with a later fire time was armed, and
\* that task has fired and sent its reminder
C26_Witness ==
  \E j \in failLog : \E k \in 1..Len(sendLog) :
    /\ sendLog[k].epoch = j.epoch
    /\ sendLog[k].fireAt > j.fireAt
    /\ sendLog[k] \in FiredJobs(fired)

C28_AggregationCompletes == (fetches # <<>>) ~> (fetches = <<>>)

(***************************************************************************)
(* Claims about the armed tasks.                                           *)
(***************************************************************************)
\* C30: at every instant at most one armed reminder task carries a given
\* (contest identity, offset).
C30_OneArmedTaskPerPair ==
  \A j, k \in ReminderJobs(scheduledJobs) :
    (j.contestId = k.contestId /\ j.timeText = k.timeText) => j = k

(***************************************************************************)
(* Claims about reminders across refreshes.                                *)
(***************************************************************************)
\* every refresh whose fetch has returned had the contest in its list, the
\* first of them armed the pair before its fire time, and no delivery of
\* the pair has failed
C31_Stable(contest, timeText) ==
  /\ refreshLog # <<>>
  /\ \A n \in 1..Len(refreshLog) : contest \in Range(refreshLog[n].list)
  /\ contest.startTimeMs - OffsetOf(timeText) > refreshLog[1].at
  /\ \A j \in failLog :
       ~(j.contestId = ContestId(contest) /\ j.timeText = timeText)

\* C31: a refresh never loses a due reminder.  For a contest that is in the
\* list of every refresh and whose fire time for an offset was in the
\* future when it was first armed, with a working channel: while the fire
\* time is ahead the pair has an armed task, also while a refresh is under
\* way, and once the clock has passed the fire time and every refresh has
\* completed the reminder of the pair has been sent.
C31_RefreshKeepsDueReminder ==
  \A contest \in Universe : \A timeText \in TimeTexts :
    C31_Stable(contest, timeText) =>
      /\ contest.startTimeMs - OffsetOf(timeText) > now =>
           LiveJobsOf(ContestId(contest), timeText) # {}
      /\ (calls = <<>> /\ contest.startTimeMs - OffsetOf(timeText) < now) =>
           SendsOf(ContestId(contest), timeText) >= 1

\* the lead time, in seconds, and the place in the order of each label
C32_Lead(timeText) ==
  CASE timeText = "1 day" -> 86400
    [] timeText = "6 hours" -> 21600
    [] timeText = "30 minutes" -> 1800

C32_Place(timeText) ==
  CASE timeText = "1 day" -> 1
    [] timeText = "6 hours" -> 2
    [] timeText = "30 minutes" -> 3

\* C32: every armed task fires at the start of its contest minus the lead
\* time of its label, strictly before the start, and the reminders sent for
\* one contest appear in the order '1 day', '6 hours', '30 minutes',
\* whatever re-arms happen in between.
C32_TimingAndOrder ==
  /\ \A j \in ReminderJobs(scheduledJobs) :
       /\ j.fireAt = j.contest.startTimeMs - C32_Lead(j.timeText)
       /\ j.fireAt < j.contest.startTimeMs
  /\ \A k1, k2 \in 1..Len(sendLog) :
       (k1 < k2 /\ sendLog[k1].contestId = sendLog[k2].contestId) =>
         /\ C32_Place(sendLog[k1].timeText) <= C32_Place(sendLog[k2].timeText)
         /\ sendLog[k1].fireAt <= sendLog[k2].fireAt

\* the three reminders of one contest were sent in order, the first and the
\* last by tasks of different arming passes
C32_Witness ==
  \E k1, k2, k3 \in 1..Len(sendLog) :
    /\ k1 < k2 /\ k2 < k3
    /\ sendLog[k1].contestId = sendLog[k3].contestId
    /\ sendLog[k2].contestId = sendLog[k3].contestId
    /\ sendLog[k1].timeText = "1 day"
    /\ sendLog[k2].timeText = "6 hours"
    /\ sendLog[k3].timeText = "30 minutes"
    /\ sendLog[k1].epoch # sendLog[k3].epoch

(***************************************************************************)
(* Claims about overlapping fetchContests calls.                           *)
(***************************************************************************)
\* C33: overlapping fetchContests calls do not disturb each other's
\* window.  Every call, under way or returned, filters with the standard
\* look-ahead the process is configured with, never with the 45-day value
\* another call has written to CONTEST_DAYS_AHEAD for its AtCoder fetch,
\* and once the calls have returned the variable holds its original value.
C33_OverlapKeepsWindow ==
  /\ \A k \in 1..Len(fetches) : fetches[k].daysAhead = StandardDaysAhead
  /\ returned.done => returned.daysAhead = StandardDaysAhead
  /\ (returned.done /\ fetches = <<>> /\ nFetches > 1) => env = configured

(***************************************************************************)
(* Claims about the platform of the cascade's records.                     *)
(***************************************************************************)
\* C34: every record of the list fetchAtCoderContests resolves to has
\* platform 'AtCoder', whichever source of the cascade produced it.
C34_CascadeOnlyAtCoder ==
  atcoderResult.done =>
    \A k \in 1..Len(atcoderResult.list) :
      atcoderResult.list[k].platform = "AtCoder"

(***************************************************************************)
(* Claims about the identity of a contest.                                 *)
(***************************************************************************)
\* C35: the contestId is injective.  Two contests with platform Codeforces
\* or AtCoder and a positive integer startTimeMs have the same contestId if
\* and only if their platform, name and startTimeMs are all equal, also
\* when a name contains '-' or digits.
C35_IdentityInjective ==
  formatted.adapter = "contestId" =>
    (formatted.output[1] = formatted.output[2]
       <=> /\ formatted.input[1].platform = formatted.input[2].platform
           /\ formatted.input[1].name = formatted.input[2].name
           /\ formatted.input[1].startTimeMs = formatted.input[2].startTimeMs)

\* two contests of one platform whose names and start times differ while
\* name and start time give the same text when joined without a separator:
\* '-1' with start 1, '-' with start 11
C35_Witness ==
  /\ formatted.adapter = "contestId"
  /\ formatted.input[1].platform = formatted.input[2].platform
  /\ formatted.input[1].name = <<"-", "1">>
  /\ formatted.input[1].startTimeMs = 1
  /\ formatted.input[2].name = <<"-">>
  /\ formatted.input[2].startTimeMs = 11
  /\ formatted.output[1] # formatted.output[2]

(***************************************************************************)
(* Claims about the scheduler variant.                                     *)
(***************************************************************************)
\* C36: in the variant that also arms 'soon' and 'imminent' reminders every
\* label of an armed task is one the callback's dedup check tracks, and
\* however often the contests are re-armed at most one 'soon' and at most
\* one 'imminent' reminder is sent for a contest.
C36_VariantLabelsDeduplicated ==
  /\ \A job \in ReminderJobs(scheduledJobs) : DedupKey(job.timeText) # "none"
  /\ \A k1, k2 \in 1..Len(sendLog) :
       (/\ sendLog[k1].timeText \in {"soon", "imminent"}
        /\ sendLog[k1].timeText = sendLog[k2].timeText
        /\ sendLog[k1].contestId = sendLog[k2].contestId) => k1 = k2

(***************************************************************************)
(* Claims about the order of overlapping refreshes.                        *)
(***************************************************************************)
\* C37: the latest refresh decides.  Once the refreshes of a run have all
\* completed, the armed reminder tasks are among those the arming pass of
\* the refresh that was started last computed from its list, also when an
\* earlier-started refresh overlapped it and got its list later.
C37_LatestRefreshDecides ==
  (calls = <<>> /\ nCalls >= 2) =>
    \A n \in 1..Len(refreshLog) :
      (refreshLog[n].call = nCalls /\ refreshLog[n].armed) =>
        ReminderJobs(scheduledJobs) \subseteq
          ArmedJobs(refreshLog[n].list, refreshLog[n].at, refreshLog[n].epoch)

====
